---- MODULE Spec2Model ----
(***************************************************************************)
(* Model of torchgeo/datasets/idtrees.py: the IDTReeS dataset adapter.     *)
(*                                                                         *)
(* Two families of behaviours are described.                               *)
(*   Spec     the dataset object: construction (__init__, _verify, _load)  *)
(*            followed by __getitem__ and __len__ calls, over a root       *)
(*            directory whose content is chosen by Init.                   *)
(*   SpecFB   the pure method _filter_boxes applied to arbitrary [N, 4]    *)
(*            box tensors, and applied again to its own result.            *)
(*                                                                         *)
(* Tensors are records [dim, rows]: dim is the number of dimensions the    *)
(* tensor has, rows the sequence of its entries along the first dimension. *)
(* Results of calls are records whose field err is "none" or the name of   *)
(* the exception that left the call.                                       *)
(***************************************************************************)
EXTENDS Integers, Sequences, FiniteSets, TLC

VARIABLES
    laspy,      \* environment: TRUE iff the laspy library can be imported
    dirs,       \* directories present directly under root
    zips,       \* archive files present at root (named by their split)
    disk,       \* what the dataset directories hold (csv rows, shapes, rasters)
    self,       \* the IDTReeS object, or NoObject before a constructor succeeded
    ret,        \* the last call: its arguments, its result, what it saw before
    log,        \* side effects of the last constructor call, in order
    fb          \* SpecFB: arguments and results of _filter_boxes calls

vars == <<laspy, dirs, zips, disk, self, ret, log, fb>>

(***************************************************************************)
(* Bounds of the model.                                                    *)
(***************************************************************************)
MaxRows == 2        \* rows per csv file
MaxBoxes == 2       \* boxes per _filter_boxes call in SpecFB

(***************************************************************************)
(* Generic helpers.                                                        *)
(***************************************************************************)
Range(s) == {s[i] : i \in 1..Len(s)}

SeqsUpTo(S, n) == UNION {[1..k -> S] : k \in 0..n}

Min2(a, b) == IF a <= b THEN a ELSE b

Max2(a, b) == IF a >= b THEN a ELSE b

SetMin(S) == CHOOSE x \in S : \A y \in S : x <= y

SetMax(S) == CHOOSE x \in S : \A y \in S : x >= y

\* s[indices]: the entries of s at the given 1-based positions, in that order
Gather(s, indices) == [k \in 1..Len(indices) |-> s[indices[k]]]

\* the 1-based positions of s that satisfy keep, ascending
RECURSIVE Where(_, _)
Where(keep, n) ==
    IF n = 0 THEN <<>>
    ELSE IF keep[n] THEN Append(Where(keep, n - 1), n) ELSE Where(keep, n - 1)

(***************************************************************************)
(* Tensors.                                                                *)
(***************************************************************************)
None == [none |-> TRUE]

\* torch.tensor(list): a list of 4-lists gives shape [N, 4]; the empty list
\* gives shape [0], a tensor of one dimension
TensorOfBoxes(boxes) ==
    [dim |-> IF Len(boxes) = 0 THEN 1 ELSE 2, rows |-> boxes]

\* torch.tensor(list) of scalars: shape [N]
TensorOfLabels(labels) == [dim |-> 1, rows |-> labels]

\* Tensor.clamp(min=lo, max=hi)
Clamp(x, lo, hi) == Min2(Max2(x, lo), hi)

\* clip_boxes_to_image reading size as <<width, height>>
ClipBoxesToImageSwapped(boxes, size) ==
    LET height == size[2]
        width == size[1]
    IN  [dim |-> boxes.dim,
         rows |-> [i \in 1..Len(boxes.rows) |->
                     <<Clamp(boxes.rows[i][1], 0, width),
                       Clamp(boxes.rows[i][2], 0, height),
                       Clamp(boxes.rows[i][3], 0, width),
                       Clamp(boxes.rows[i][4], 0, height)>>]]

\* torchvision.ops.clip_boxes_to_image(boxes, size): x coordinates (columns 0
\* and 2) are clamped to [0, width], y coordinates (1 and 3) to [0, height];
\* the shape of the tensor is kept
ClipBoxesToImage(boxes, size) ==
    LET height == size[1]
        width == size[2]
    IN  [dim |-> boxes.dim,
         rows |-> [i \in 1..Len(boxes.rows) |->
                     <<Clamp(boxes.rows[i][1], 0, width),
                       Clamp(boxes.rows[i][2], 0, height),
                       Clamp(boxes.rows[i][3], 0, width),
                       Clamp(boxes.rows[i][4], 0, height)>>]]

\* remove_small_boxes keeping only the sides longer than min_size
RemoveSmallBoxesStrict(boxes, min_size) ==
    IF boxes.dim < 2
    THEN [err |-> "IndexError", indices |-> <<>>]
    ELSE LET ws == [i \in 1..Len(boxes.rows) |-> boxes.rows[i][3] - boxes.rows[i][1]]
             hs == [i \in 1..Len(boxes.rows) |-> boxes.rows[i][4] - boxes.rows[i][2]]
             keep == [i \in 1..Len(boxes.rows) |->
                         ws[i] > min_size /\ hs[i] > min_size]
         IN  [err |-> "none", indices |-> Where(keep, Len(boxes.rows))]

\* torchvision.ops.remove_small_boxes(boxes, min_size): boxes[:, 2] needs a
\* tensor of two dimensions (IndexError otherwise); keeps the positions where
\* ws >= min_size and hs >= min_size
RemoveSmallBoxes(boxes, min_size) ==
    IF boxes.dim < 2
    THEN [err |-> "IndexError", indices |-> <<>>]
    ELSE LET ws == [i \in 1..Len(boxes.rows) |-> boxes.rows[i][3] - boxes.rows[i][1]]
             hs == [i \in 1..Len(boxes.rows) |-> boxes.rows[i][4] - boxes.rows[i][2]]
             keep == [i \in 1..Len(boxes.rows) |->
                         ws[i] >= min_size /\ hs[i] >= min_size]
         IN  [err |-> "none", indices |-> Where(keep, Len(boxes.rows))]

\* _filter_boxes measuring the boxes before they are clipped
FilterBoxesUnclipped(image_size, min_size, boxes, labels) ==
    LET clipped == ClipBoxesToImage(boxes, image_size)
        small == RemoveSmallBoxes(boxes, min_size)
    IN  IF small.err # "none"
        THEN [err |-> small.err, boxes |-> None, labels |-> None]
        ELSE [err |-> "none",
              boxes |-> [dim |-> clipped.dim,
                         rows |-> Gather(clipped.rows, small.indices)],
              labels |-> IF labels # None
                         THEN [dim |-> labels.dim,
                               rows |-> Gather(labels.rows, small.indices)]
                         ELSE None]

\* IDTReeS._filter_boxes(image_size, min_size, boxes, labels)
FilterBoxes(image_size, min_size, boxes, labels) ==
    LET clipped == ClipBoxesToImage(boxes, image_size)
        small == RemoveSmallBoxes(clipped, min_size)
    IN  IF small.err # "none"
        THEN [err |-> small.err, boxes |-> None, labels |-> None]
        ELSE [err |-> "none",
              boxes |-> [dim |-> clipped.dim,
                         rows |-> Gather(clipped.rows, small.indices)],
              labels |-> IF labels # None
                         THEN [dim |-> labels.dim,
                               rows |-> Gather(labels.rows, small.indices)]
                         ELSE None]

(***************************************************************************)
(* Class attributes of IDTReeS.                                            *)
(***************************************************************************)
\* the keys of the dict literal `classes`, as written, in order
classes ==
    <<"ACPE", "ACRU", "ACSA3", "AMLA", "BETUL", "CAGL8", "CATO6", "FAGR",
      "GOLA", "LITU", "LYLU3", "MAGNO", "NYBI", "NYSY", "OXYDE", "PEPA37",
      "PIEL", "PIPA2", "PINUS", "PITA", "PRSE2", "QUAL", "QUCO2", "QUGE2",
      "QUHE2", "QULA2", "QULA3", "QUMO4", "QUNI", "QURU", "QUERC", "ROPS",
      "TSCA">>

\* iterating a dict yields each distinct key once, in first-insertion order
RECURSIVE DictKeys(_)
DictKeys(literal) ==
    IF literal = <<>> THEN <<>>
    ELSE LET front == DictKeys(SubSeq(literal, 1, Len(literal) - 1))
             last == literal[Len(literal)]
         IN  IF last \in Range(front) THEN front ELSE Append(front, last)

\* {c: i for i, c in enumerate(self.classes)} with enumerate starting at 1
Class2IdxFromOne(keys) ==
    [c \in Range(keys) |-> SetMax({i \in 1..Len(keys) : keys[i] = c})]

\* {c: i for i, c in enumerate(self.classes)}: a later pair replaces an
\* earlier one with the same key
Class2Idx(keys) ==
    [c \in Range(keys) |-> SetMax({i \in 1..Len(keys) : keys[i] = c}) - 1]

\* {i: c for i, c in enumerate(self.classes)}
Idx2Class(keys) == [i \in 0..(Len(keys) - 1) |-> keys[i + 1]]

\* the three attributes __init__ derives from the class table, lines 189-191
class2idx == Class2Idx(DictKeys(classes))

idx2class == Idx2Class(DictKeys(classes))

num_classes == Len(DictKeys(classes))

Splits == {"train", "test"}

Tasks == {"task1", "task2"}

metadata ==
    [train |-> [url |-> "https://zenodo.org/record/3934932/files/IDTREES_competition_train_v2.zip?download=1",
                md5 |-> "5ddfa76240b4bb6b4a7861d1d31c299c",
                filename |-> "IDTREES_competition_train_v2.zip"],
     test |-> [url |-> "https://zenodo.org/record/3934932/files/IDTREES_competition_test_v2.zip?download=1",
               md5 |-> "b108931c84a70f2a38a8234290131c9b",
               filename |-> "IDTREES_competition_test_v2.zip"]]

directories == [train |-> <<"train">>, test |-> <<"task1", "task2">>]

image_size == <<200, 200>>

(***************************************************************************)
(* Helpers of torchgeo.datasets.utils, by their effect on the root.        *)
(***************************************************************************)
\* lazy_import(name): returns the module, raises DependencyNotFoundError when
\* it cannot be imported
LazyImport(available) ==
    IF available THEN "none" ELSE "DependencyNotFoundError"

\* extract_archive(filepath): unpacks next to the archive; the train archive
\* holds train/, the test archive holds task1/ and task2/
ExtractArchive(filename, ds) ==
    ds \cup UNION {Range(directories[s]) : s \in {t \in Splits : metadata[t].filename = filename}}

\* download_url(url, root, filename, md5): stores the file as root/filename
DownloadUrl(filename, zs) == zs \cup {filename}

(***************************************************************************)
(* IDTReeS._verify                                                         *)
(***************************************************************************)
ExtractCall(filepath) == [call |-> "extract_archive", arg |-> filepath, md5 |-> "-"]

DownloadCall(url, filename, md5) == [call |-> "download_url", arg |-> url, md5 |-> md5]

\* _verify satisfied by any(exists) in place of all(exists)
VerifyAny(split, download, checksum, ds, zs) ==
    LET md5 == metadata[split].md5
        url == metadata[split].url
        filename == metadata[split].filename
        exists == [i \in 1..Len(directories[split]) |-> directories[split][i] \in ds]
    IN  IF \E i \in 1..Len(exists) : exists[i]
        THEN [err |-> "none", dirs |-> ds, zips |-> zs, calls |-> <<>>]
        ELSE IF filename \in zs
        THEN [err |-> "none", dirs |-> ExtractArchive(filename, ds), zips |-> zs,
              calls |-> <<ExtractCall(filename)>>]
        ELSE IF ~download
        THEN [err |-> "DatasetNotFoundError", dirs |-> ds, zips |-> zs, calls |-> <<>>]
        ELSE [err |-> "none",
              dirs |-> ExtractArchive(filename, ds),
              zips |-> DownloadUrl(filename, zs),
              calls |-> <<DownloadCall(url, filename, IF checksum THEN md5 ELSE "None"),
                          ExtractCall(filename)>>]

\* IDTReeS._verify(): the exception if any, the root afterwards, the calls made
Verify(split, download, checksum, ds, zs) ==
    LET md5 == metadata[split].md5
        url == metadata[split].url
        filename == metadata[split].filename
        exists == [i \in 1..Len(directories[split]) |-> directories[split][i] \in ds]
    IN  IF \A i \in 1..Len(exists) : exists[i]
        THEN [err |-> "none", dirs |-> ds, zips |-> zs, calls |-> <<>>]
        ELSE IF filename \in zs
        THEN [err |-> "none", dirs |-> ExtractArchive(filename, ds), zips |-> zs,
              calls |-> <<ExtractCall(filename)>>]
        ELSE IF ~download
        THEN [err |-> "DatasetNotFoundError", dirs |-> ds, zips |-> zs, calls |-> <<>>]
        ELSE [err |-> "none",
              dirs |-> ExtractArchive(filename, ds),
              zips |-> DownloadUrl(filename, zs),
              calls |-> <<DownloadCall(url, filename, IF checksum THEN md5 ELSE "None"),
                          ExtractCall(filename)>>]

(***************************************************************************)
(* The annotation table (pandas).  A DataFrame is the sequence of its      *)
(* rows; a cell that may be missing is <<v>> or NaN.                       *)
(***************************************************************************)
NaN == <<>>

Some(v) == <<v>>

\* the rows df_labels.join(df_mapping, on='indvdID') makes of one label row:
\* one per mapping row with the same indvdID, in the mapping's order; a
\* single row with missing cells when there is none (left join)
JoinRow(row, df_mapping) ==
    LET hits == SelectSeq(df_mapping, LAMBDA m : m.indvdID = row.indvdID)
    IN  IF hits = <<>>
        THEN <<[indvdID |-> row.indvdID, taxonID |-> row.taxonID,
                id |-> NaN, rsFile |-> NaN]>>
        ELSE [k \in 1..Len(hits) |->
                [indvdID |-> row.indvdID, taxonID |-> row.taxonID,
                 id |-> Some(hits[k].id), rsFile |-> Some(hits[k].rsFile)]]

RECURSIVE Join(_, _)
Join(df_labels, df_mapping) ==
    IF df_labels = <<>> THEN <<>>
    ELSE JoinRow(Head(df_labels), df_mapping) \o Join(Tail(df_labels), df_mapping)

\* the columns of a joined row; indvdID is the index, not a column
Columns(row) == <<row.taxonID, row.id, row.rsFile>>

\* DataFrame.drop_duplicates(): keeps the first of the rows whose columns
\* are all equal (the index is not compared)
RECURSIVE DropDuplicates(_)
DropDuplicates(df) ==
    IF df = <<>> THEN <<>>
    ELSE LET front == DropDuplicates(SubSeq(df, 1, Len(df) - 1))
             last == df[Len(df)]
         IN  IF \E k \in 1..Len(front) : Columns(front[k]) = Columns(last)
             THEN front
             ELSE Append(front, last)

\* IDTReeS._load_labels(directory)
LoadLabels(directory) ==
    DropDuplicates(Join(directory.train_data, directory.itc_rsFile))

(***************************************************************************)
(* Geometries (fiona).  A .shp file is the sequence of its features; a     *)
(* feature is [id, plotID, ring]: properties id and plotID, and the first  *)
(* ring of its polygon as a sequence of <<x, y>> points.                   *)
(***************************************************************************)
RECURSIVE Flatten(_)
Flatten(files) ==
    IF files = <<>> THEN <<>> ELSE Head(files) \o Flatten(Tail(files))

\* _load_geometries keying every feature by its declared id, whatever the split
RECURSIVE LoadFeaturesById(_, _, _)
LoadFeaturesById(split, features, n) ==
    IF n = 0 THEN <<>>
    ELSE (features[n].id :> features[n]) @@ LoadFeaturesById(split, features, n - 1)

\* the dict _load_geometries builds from the features read so far
RECURSIVE LoadFeatures(_, _, _)
LoadFeatures(split, features, n) ==
    IF n = 0 THEN <<>>
    ELSE LET before == LoadFeatures(split, features, n - 1)
             feature == features[n]
         IN  IF split = "train"
             THEN (feature.id :> feature) @@ before
             ELSE ((n - 1) :> feature) @@ before

\* IDTReeS._load_geometries(directory)
LoadGeometries(split, directory) ==
    LET features == Flatten(directory.ITC)
    IN  LoadFeatures(split, features, Len(features))

\* glob.glob(directory/RemoteSensing/RGB/*.tif)
GlobRGB(directory) == [k \in 1..Len(directory.RGB) |-> directory.RGB[k].name]

\* IDTReeS._load(root)
Load(split, task, dsk) ==
    IF split = "train"
    THEN [images |-> GlobRGB(dsk[directories[split][1]]),
          geometries |-> LoadGeometries(split, dsk[directories[split][1]]),
          labels |-> LoadLabels(dsk[directories[split][1]])]
    ELSE IF task = "task1"
    THEN [images |-> GlobRGB(dsk[task]), geometries |-> None, labels |-> None]
    ELSE [images |-> GlobRGB(dsk[task]),
          geometries |-> LoadGeometries(split, dsk[task]),
          labels |-> None]

\* the directory the object's scenes live in (as in _load)
SceneDir(obj) == IF obj.split = "train" THEN directories[obj.split][1] ELSE obj.task

(***************************************************************************)
(* Per-sample loading.                                                     *)
(***************************************************************************)
\* rasterio: a raster's index(x, y) is <<row, col>> under its transform; the
\* rasters of the model have unit pixels and their upper left corner at
\* <<x0, y0>>
RasterIndex(f, x, y) == <<f.y0 - y, x - f.x0>>

OpenRaster(dsk, obj, path) ==
    CHOOSE f \in Range(dsk[SceneDir(obj)].RGB) : f.name = path

\* the box of one geometry, lines 306-311
PixelBox(f, geom) ==
    LET coords == [k \in 1..Len(geom) |-> RasterIndex(f, geom[k][1], geom[k][2])]
        xs == {coords[k][2] : k \in 1..Len(coords)}
        ys == {coords[k][1] : k \in 1..Len(coords)}
    IN  <<SetMin(xs), SetMin(ys), SetMax(xs), SetMax(ys)>>

\* dict.items() of the geometries, in insertion order (the test split's keys
\* are inserted in ascending order)
RECURSIVE KeysAscending(_)
KeysAscending(S) ==
    IF S = {} THEN <<>>
    ELSE <<SetMin(S)>> \o KeysAscending(S \ {SetMin(S)})

\* the rows of self.labels whose rsFile is base_path
RowsOf(obj, base_path) ==
    SelectSeq(obj.labels, LAMBDA r : r.rsFile = Some(base_path))

\* the ids _load_boxes looks up, lines 287-299
BoxIds(obj, base_path) ==
    IF obj.split = "train"
    THEN [k \in 1..Len(RowsOf(obj, base_path)) |-> RowsOf(obj, base_path)[k].id[1]]
    ELSE SelectSeq(KeysAscending(DOMAIN obj.geometries),
                   LAMBDA k : obj.geometries[k].plotID = base_path)

\* IDTReeS._load_boxes(path)
LoadBoxes(obj, dsk, path) ==
    LET ids == BoxIds(obj, path)
    IN  IF \E k \in 1..Len(ids) : ids[k] \notin DOMAIN obj.geometries
        THEN [err |-> "KeyError", tensor |-> None]
        ELSE LET geoms == [k \in 1..Len(ids) |->
                              SubSeq(obj.geometries[ids[k]].ring, 1,
                                     Min2(4, Len(obj.geometries[ids[k]].ring)))]
                 f == OpenRaster(dsk, obj, path)
             IN  [err |-> "none",
                  tensor |-> TensorOfBoxes([k \in 1..Len(geoms) |-> PixelBox(f, geoms[k])])]

\* IDTReeS._load_target(path)
LoadTarget(obj, path) ==
    LET rows == RowsOf(obj, path)
    IN  IF \E k \in 1..Len(rows) : rows[k].taxonID \notin DOMAIN obj.class2idx
        THEN [err |-> "KeyError", tensor |-> None]
        ELSE [err |-> "none",
              tensor |-> TensorOfLabels([k \in 1..Len(rows) |->
                                            obj.class2idx[rows[k].taxonID]])]

(***************************************************************************)
(* IDTReeS.__getitem__ and IDTReeS.__len__                                 *)
(***************************************************************************)
\* the tensor _load_image / _load_las reads from the file that
\* path.replace('RGB', kind) names
Modality(kind, path) == [kind |-> kind, path |-> path]

\* a transform is an opaque callable: its result is the application itself
Transforms == {"None", "transforms"}

ApplyTransforms(transforms, sample) ==
    IF transforms = "None" THEN sample
    ELSE [transforms |-> transforms, sample |-> sample]

\* a call left by an exception: nothing is built, nothing is returned;
\* loaded is what _load_boxes and _load_target had returned by then
Raise(obj, err, loaded) ==
    [err |-> err, built |-> None, value |-> None, loaded |-> loaded, self |-> obj]

\* lines 230-233; built is the sample as it stands at line 229
Return(obj, sample, loaded) ==
    [err |-> "none", built |-> sample,
     value |-> ApplyTransforms(obj.transforms, sample),
     loaded |-> loaded, self |-> obj]

\* lines 211-217 with both results of _filter_boxes stored in the sample
AnnotateTestWithLabel(obj, dsk, path, sample) ==
    IF obj.task = "task2"
    THEN LET boxes == LoadBoxes(obj, dsk, path)
             loaded == [boxes |-> boxes.tensor, label |-> None]
             kept == FilterBoxes(image_size, 1, boxes.tensor, None)
         IN  IF boxes.err # "none" THEN Raise(obj, boxes.err, None)
             ELSE IF kept.err # "none" THEN Raise(obj, kept.err, loaded)
             ELSE Return(obj, [boxes |-> kept.boxes, label |-> kept.labels] @@ sample,
                         loaded)
    ELSE Return(obj, sample, None)

\* lines 211-217: the test split
AnnotateTest(obj, dsk, path, sample) ==
    IF obj.task = "task2"
    THEN LET boxes == LoadBoxes(obj, dsk, path)
             loaded == [boxes |-> boxes.tensor, label |-> None]
             kept == FilterBoxes(image_size, 1, boxes.tensor, None)
         IN  IF boxes.err # "none" THEN Raise(obj, boxes.err, None)
             ELSE IF kept.err # "none" THEN Raise(obj, kept.err, loaded)
             ELSE Return(obj, [boxes |-> kept.boxes] @@ sample, loaded)
    ELSE Return(obj, sample, None)

\* lines 218-228: the train split
AnnotateTrain(obj, dsk, path, sample) ==
    LET boxes == LoadBoxes(obj, dsk, path)
        label == LoadTarget(obj, path)
        loaded == [boxes |-> boxes.tensor, label |-> label.tensor]
        kept == FilterBoxes(image_size, 1, boxes.tensor, label.tensor)
    IN  IF boxes.err # "none" THEN Raise(obj, boxes.err, None)
        ELSE IF label.err # "none" THEN Raise(obj, label.err, None)
        ELSE IF kept.err # "none" THEN Raise(obj, kept.err, loaded)
        ELSE Return(obj, [boxes |-> kept.boxes, label |-> kept.labels] @@ sample,
                    loaded)

\* self.images[index]: a negative index counts from the end
PathAt(obj, index) ==
    obj.images[IF index < 0 THEN index + Len(obj.images) + 1 ELSE index + 1]

\* IDTReeS.__getitem__(index): the result, and the object after the call
GetItem(obj, dsk, available, index) ==
    IF index >= Len(obj.images) \/ index < -Len(obj.images)
    THEN Raise(obj, "IndexError", None)
    ELSE LET path == PathAt(obj, index)
             sample == [image |-> Modality("RGB", path),
                        hsi |-> Modality("HSI", path),
                        chm |-> Modality("CHM", path),
                        las |-> Modality("LAS", path)]
         IN  IF LazyImport(available) # "none"
             THEN Raise(obj, LazyImport(available), None)
             ELSE IF obj.split = "test"
             THEN AnnotateTest(obj, dsk, path, sample)
             ELSE AnnotateTrain(obj, dsk, path, sample)

\* __len__ counting the annotation rows of the train split
LenOfLabels(obj) ==
    IF obj.split = "train" THEN Len(obj.labels) ELSE Len(obj.images)

\* IDTReeS.__len__()
LenOf(obj) == Len(obj.images)

(***************************************************************************)
(* IDTReeS.__init__                                                        *)
(***************************************************************************)
Call(name, arg) == [call |-> name, arg |-> arg, md5 |-> "-"]

\* lines 180-193: __init__ once laspy has been imported
ConstructChecked(split, task, transforms, download, checksum, available, ds, zs, dsk) ==
    IF split \notin Splits
    THEN [err |-> "AssertionError", self |-> None, dirs |-> ds, zips |-> zs,
          calls |-> <<Call("lazy_import", "laspy"), Call("assert", split)>>]
    ELSE IF task \notin Tasks
    THEN [err |-> "AssertionError", self |-> None, dirs |-> ds, zips |-> zs,
          calls |-> <<Call("lazy_import", "laspy"), Call("assert", split),
                      Call("assert", task)>>]
    ELSE LET v == Verify(split, download, checksum, ds, zs)
             before == <<Call("lazy_import", "laspy"), Call("assert", split),
                         Call("assert", task), Call("_verify", split)>> \o v.calls
         IN  IF v.err # "none"
             THEN [err |-> v.err, self |-> None, dirs |-> v.dirs, zips |-> v.zips,
                   calls |-> before]
             ELSE LET index == Load(split, task, dsk)
                  IN  [err |-> "none",
                       self |-> [split |-> split, task |-> task,
                                 transforms |-> transforms,
                                 download |-> download, checksum |-> checksum,
                                 class2idx |-> class2idx,
                                 idx2class |-> idx2class,
                                 num_classes |-> num_classes,
                                 images |-> index.images,
                                 geometries |-> index.geometries,
                                 labels |-> index.labels],
                       dirs |-> v.dirs, zips |-> v.zips,
                       calls |-> Append(before, Call("_load", split))]

\* __init__ going on when laspy could not be imported
ConstructUnchecked(split, task, transforms, download, checksum, available, ds, zs, dsk) ==
    ConstructChecked(split, task, transforms, download, checksum, available, ds, zs, dsk)

\* IDTReeS.__init__: the exception or the object, the root afterwards, and
\* the calls made, in order
Construct(split, task, transforms, download, checksum, available, ds, zs, dsk) ==
    IF LazyImport(available) # "none"
    THEN [err |-> LazyImport(available), self |-> None, dirs |-> ds, zips |-> zs,
          calls |-> <<Call("lazy_import", "laspy")>>]
    ELSE ConstructChecked(split, task, transforms, download, checksum,
                          available, ds, zs, dsk)

(***************************************************************************)
(* The roots the model starts from.                                        *)
(***************************************************************************)
AllDirs == UNION {Range(directories[s]) : s \in Splits}

AllZips == {metadata[s].filename : s \in Splits}

\* a closed rectangular ring in geographic coordinates
Ring(x1, y1, x2, y2) ==
    <<<<x1, y1>>, <<x2, y1>>, <<x2, y2>>, <<x1, y2>>, <<x1, y1>>>>

Feature(id, plotID, ring) == [id |-> id, plotID |-> plotID, ring |-> ring]

\* the RGB rasters of a directory: unit pixels, upper left corner at (0, 200)
RGBFiles ==
    <<[name |-> "P1_RGB.tif", x0 |-> 0, y0 |-> 200],
      [name |-> "P2_RGB.tif", x0 |-> 0, y0 |-> 200]>>

\* crowns: well inside the image; left of it but for one pixel column;
\* across its lower right corner; of no width
Inside == Ring(10, 150, 20, 190)

LeftOut == Ring(-30, 150, 0, 190)

FarEdge == Ring(190, -10, 230, 50)

Thin == Ring(10, 150, 10, 190)

LabelRows ==
    {[indvdID |-> 1, taxonID |-> "ACPE"], [indvdID |-> 2, taxonID |-> "ACRU"]}

MapRow(indvdID, id, rsFile) == [indvdID |-> indvdID, id |-> id, rsFile |-> rsFile]

\* itc_rsFile.csv: both trees in scene P1; tree 2 in scene P2; tree 2 in both
\* scenes and tree 1 in none; the row of tree 1 twice
MapTables ==
    {<<MapRow(1, 11, "P1_RGB.tif"), MapRow(2, 12, "P1_RGB.tif")>>,
     <<MapRow(1, 11, "P1_RGB.tif"), MapRow(2, 12, "P2_RGB.tif")>>,
     <<MapRow(2, 12, "P1_RGB.tif"), MapRow(2, 12, "P2_RGB.tif")>>,
     <<MapRow(1, 11, "P1_RGB.tif"), MapRow(1, 11, "P1_RGB.tif")>>}

TrainShps ==
    {<<<<Feature(11, "P1", Inside), Feature(12, "P1", LeftOut)>>>>,
     <<<<Feature(11, "P1", FarEdge)>>, <<Feature(11, "P1", Inside)>>>>,
     <<<<Feature(11, "P1", Thin), Feature(12, "P2", FarEdge)>>>>}

Task2Shps ==
    {<<<<Feature(1, "P1_RGB.tif", Inside), Feature(2, "P1_RGB.tif", LeftOut)>>,
       <<Feature(1, "P1_RGB.tif", FarEdge)>>>>,
     <<>>,
     <<<<Feature(1, "P2_RGB.tif", Inside)>>>>}

DiskOf(train_data, itc_rsFile, trainShp, task2Shp) ==
    [train |-> [train_data |-> train_data, itc_rsFile |-> itc_rsFile,
                ITC |-> trainShp, RGB |-> RGBFiles],
     task1 |-> [RGB |-> SubSeq(RGBFiles, 1, 1)],
     task2 |-> [ITC |-> task2Shp, RGB |-> RGBFiles]]

DefaultDisk ==
    DiskOf(<<[indvdID |-> 1, taxonID |-> "ACPE"], [indvdID |-> 2, taxonID |-> "ACRU"]>>,
           <<MapRow(1, 11, "P1_RGB.tif"), MapRow(2, 12, "P1_RGB.tif")>>,
           <<<<Feature(11, "P1", Inside), Feature(12, "P1", LeftOut)>>>>,
           <<<<Feature(1, "P1_RGB.tif", Inside), Feature(2, "P1_RGB.tif", LeftOut)>>,
             <<Feature(1, "P1_RGB.tif", FarEdge)>>>>)

Disks ==
    {DiskOf(l, m, g, DefaultDisk.task2.ITC) :
        l \in SeqsUpTo(LabelRows, MaxRows), m \in MapTables,
        g \in TrainShps}
    \cup {DiskOf(DefaultDisk.train.train_data, DefaultDisk.train.itc_rsFile,
                 DefaultDisk.train.ITC, t) : t \in Task2Shps}

\* the <<split, task>> and <<download, checksum>> a caller may pass, valid or
\* not
SplitTaskArgs ==
    {<<"train", "task1">>, <<"test", "task1">>, <<"test", "task2">>,
     <<"val", "task1">>, <<"train", "task3">>}

DownloadArgs == {<<FALSE, FALSE>>, <<TRUE, FALSE>>, <<TRUE, TRUE>>}

NoCall == [op |-> "none"]

FBIdle == [stage |-> "idle"]

Init ==
    /\ \/ /\ laspy \in BOOLEAN
          /\ dirs \in SUBSET AllDirs
          /\ zips \in SUBSET AllZips
          /\ disk = DefaultDisk
       \/ /\ laspy = TRUE
          /\ dirs = AllDirs
          /\ zips = {}
          /\ disk \in Disks
    /\ self = None
    /\ ret = NoCall
    /\ log = <<>>
    /\ fb = FBIdle

(***************************************************************************)
(* The calls.                                                              *)
(***************************************************************************)
IDTReeS_init(split, task, transforms, download, checksum) ==
    \E r \in {Construct(split, task, transforms, download, checksum,
                         laspy, dirs, zips, disk)} :
        /\ self' = r.self
        /\ dirs' = r.dirs
        /\ zips' = r.zips
        /\ log' = r.calls
        /\ ret' = [op |-> "init",
                   args |-> [split |-> split, task |-> task, transforms |-> transforms,
                             download |-> download, checksum |-> checksum],
                   err |-> r.err, built |-> None, value |-> None,
                   pre |-> [dirs |-> dirs, zips |-> zips]]
        /\ UNCHANGED <<laspy, disk, fb>>

IDTReeS_getitem(index) ==
    /\ self # None
    /\ \E r \in {GetItem(self, disk, laspy, index)} :
           /\ self' = r.self
           /\ ret' = [op |-> "getitem", args |-> [index |-> index],
                      err |-> r.err, built |-> r.built, value |-> r.value,
                      loaded |-> r.loaded]
    /\ UNCHANGED <<laspy, dirs, zips, disk, log, fb>>

IDTReeS_len ==
    /\ self # None
    /\ ret' = [op |-> "len", args |-> None, err |-> "none", built |-> None,
               value |-> LenOf(self)]
    /\ UNCHANGED <<laspy, dirs, zips, disk, self, log, fb>>

Next ==
    \/ \E st \in SplitTaskArgs, dc \in DownloadArgs, transforms \in Transforms :
            IDTReeS_init(st[1], st[2], transforms, dc[1], dc[2])
    \/ \E index \in -1..Len(RGBFiles) : IDTReeS_getitem(index)
    \/ IDTReeS_len

Spec == Init /\ [][Next]_vars

(***************************************************************************)
(* _filter_boxes on its own: SpecFB.                                       *)
(***************************************************************************)
\* <<height, width>> of the image
FBImageSizes == {<<2, 3>>, <<3, 2>>}

FBMinSizes == {0, 1, 2}

\* <<min, max>> of a box along x and along y
FBXIntervals == {<<-1, 1>>, <<0, 3>>, <<2, 4>>, <<1, 1>>, <<3, 0>>}

FBYIntervals == {<<-1, 2>>, <<1, 4>>, <<2, 2>>}

FBBoxes == {<<x[1], y[1], x[2], y[2]>> : x \in FBXIntervals, y \in FBYIntervals}

\* an [N, 4] tensor of boxes
BoxTensor(rows) == [dim |-> 2, rows |-> rows]

\* labels parallel to n boxes, all different: 100, 101, ...
FBLabels(n) == TensorOfLabels([k \in 1..n |-> 99 + k])

InitFB ==
    /\ laspy = FALSE
    /\ dirs = {}
    /\ zips = {}
    /\ disk = DefaultDisk
    /\ self = None
    /\ ret = NoCall
    /\ log = <<>>
    /\ \E size \in FBImageSizes, min_size \in FBMinSizes,
          rows \in SeqsUpTo(FBBoxes, MaxBoxes), labelled \in BOOLEAN :
            fb = [stage |-> "args", image_size |-> size, min_size |-> min_size,
                  boxes |-> BoxTensor(rows),
                  labels |-> IF labelled THEN FBLabels(Len(rows)) ELSE None]

\* boxes, labels = self._filter_boxes(image_size, min_size, boxes, labels)
FilterBoxesCall ==
    /\ fb.stage = "args"
    /\ fb' = [stage |-> "once", image_size |-> fb.image_size, min_size |-> fb.min_size,
              boxes |-> fb.boxes, labels |-> fb.labels,
              out |-> FilterBoxes(fb.image_size, fb.min_size, fb.boxes, fb.labels)]
    /\ UNCHANGED <<laspy, dirs, zips, disk, self, ret, log>>

\* the same call on the pair the first call returned
FilterBoxesAgain ==
    /\ fb.stage = "once"
    /\ fb.out.err = "none"
    /\ fb' = [stage |-> "twice", image_size |-> fb.image_size, min_size |-> fb.min_size,
              boxes |-> fb.boxes, labels |-> fb.labels, out |-> fb.out,
              again |-> FilterBoxes(fb.image_size, fb.min_size,
                                    fb.out.boxes, fb.out.labels)]
    /\ UNCHANGED <<laspy, dirs, zips, disk, self, ret, log>>

NextFB == FilterBoxesCall \/ FilterBoxesAgain

SpecFB == InitFB /\ [][NextFB]_vars

(***************************************************************************)
(* Properties of construction.                                             *)
(***************************************************************************)
CallsNamed(name) == SelectSeq(log, LAMBDA c : c.call = name)

\* the last call was a constructor call that got as far as _verify
Verified == ret.op = "init" /\ CallsNamed("_verify") # <<>>

\* C1: _verify is a cascade over (every expected directory of the split
\* exists, the split's archive exists, download).  All directories there:
\* success, nothing extracted, nothing downloaded.  Else archive there: that
\* archive is extracted, nothing downloaded.  Else download off:
\* DatasetNotFoundError, nothing extracted or downloaded.  Else: the archive
\* is downloaded (md5 passed only if checksum) and then extracted.  Whenever
\* an archive was extracted the split's directories exist afterwards, so a
\* later construction on that root is in the first case.
C1_VerifyCascade ==
    Verified =>
        LET split == ret.args.split
            filename == metadata[split].filename
            allExist == \A d \in Range(directories[split]) : d \in ret.pre.dirs
            archive == filename \in ret.pre.zips
            extracts == CallsNamed("extract_archive")
            downloads == CallsNamed("download_url")
        IN  /\ allExist =>
                /\ ret.err = "none"
                /\ extracts = <<>> /\ downloads = <<>>
            /\ ~allExist /\ archive =>
                /\ ret.err = "none"
                /\ extracts = <<ExtractCall(filename)>> /\ downloads = <<>>
            /\ ~allExist /\ ~archive /\ ~ret.args.download =>
                /\ ret.err = "DatasetNotFoundError"
                /\ extracts = <<>> /\ downloads = <<>>
                /\ dirs = ret.pre.dirs /\ zips = ret.pre.zips
            /\ ~allExist /\ ~archive /\ ret.args.download =>
                /\ ret.err = "none"
                /\ SubSeq(log, Len(log) - 2, Len(log) - 1)
                       = <<DownloadCall(metadata[split].url, filename,
                                        IF ret.args.checksum THEN metadata[split].md5
                                        ELSE "None"),
                           ExtractCall(filename)>>
                /\ Len(extracts) = 1 /\ Len(downloads) = 1
            /\ extracts # <<>> => \A d \in Range(directories[split]) : d \in dirs

\* the test split with only task1 there and its archive at root: extracted
C1_Witness ==
    /\ Verified
    /\ ret.args.split = "test"
    /\ ret.pre.dirs = {"task1"}
    /\ metadata["test"].filename \in ret.pre.zips
    /\ CallsNamed("extract_archive") # <<>>
    /\ dirs = {"task1", "task2"}

\* C10: without laspy the constructor raises DependencyNotFoundError and has
\* done nothing else: the import attempt is its only call (no assertion on
\* split or task, no _verify, no extraction, no download, no _load), the
\* root is as it was and there is no object.
C10_ImportFirst ==
    ret.op = "init" /\ ~laspy =>
        /\ ret.err = "DependencyNotFoundError"
        /\ log = <<Call("lazy_import", "laspy")>>
        /\ dirs = ret.pre.dirs
        /\ zips = ret.pre.zips
        /\ self = None

\* an invalid split, download allowed and an empty root, without laspy
C10_Witness ==
    /\ ret.op = "init" /\ ~laspy
    /\ ret.args.split = "val"
    /\ ret.args.download
    /\ ret.pre.dirs = {} /\ ret.pre.zips = {}
    /\ ret.err = "DependencyNotFoundError"

\* C8: class2idx and idx2class of a constructed object are inverse
\* bijections between the 33 species codes and 0..32, and num_classes is 33.
C8_ClassBijection ==
    self # None =>
        /\ self.num_classes = 33
        /\ DOMAIN self.class2idx = Range(classes)
        /\ Cardinality(Range(classes)) = 33
        /\ DOMAIN self.idx2class = 0..32
        /\ \A c \in DOMAIN self.class2idx :
              /\ self.class2idx[c] \in 0..32
              /\ self.idx2class[self.class2idx[c]] = c
        /\ \A i \in DOMAIN self.idx2class :
              /\ self.idx2class[i] \in Range(classes)
              /\ self.class2idx[self.idx2class[i]] = i
        /\ \A c, d \in DOMAIN self.class2idx :
              self.class2idx[c] = self.class2idx[d] => c = d
        /\ \A i, j \in DOMAIN self.idx2class :
              self.idx2class[i] = self.idx2class[j] => i = j

C8_Witness ==
    /\ self # None
    /\ self.class2idx["ACPE"] = 0
    /\ self.class2idx["TSCA"] = 32
    /\ self.idx2class[32] = "TSCA"

(***************************************************************************)
(* Properties of indexed access.                                           *)
(***************************************************************************)
Accessed == ret.op = "getitem" /\ self # None

\* C2: the keys of the sample built by __getitem__, before the transform,
\* depend on split and task only: image, hsi, chm and las always; boxes and
\* label for train; boxes without label for test/task2; neither for
\* test/task1.
C2_SampleFields ==
    Accessed /\ ret.err = "none" =>
        DOMAIN ret.built =
            {"image", "hsi", "chm", "las"}
            \cup (IF self.split = "train" THEN {"boxes", "label"}
                  ELSE IF self.task = "task2" THEN {"boxes"}
                  ELSE {})

\* a test/task2 sample that carries a box, returned through a transform
C2_Witness ==
    /\ Accessed /\ ret.err = "none"
    /\ self.split = "test" /\ self.task = "task2"
    /\ self.transforms # "None"
    /\ ret.built.boxes.rows # <<>>

\* the positions of the annotation table whose rsFile is the scene's file
SceneRows(path) ==
    {k \in 1..Len(self.labels) : self.labels[k].rsFile = <<path>>}

\* the i-th of them, counting from 1
SceneRow(path, i) ==
    CHOOSE k \in SceneRows(path) :
        Cardinality({j \in SceneRows(path) : j <= k}) = i

\* a coordinate brought into [0, extent]
Clipped(v, extent) == IF v < 0 THEN 0 ELSE IF v > extent THEN extent ELSE v

\* both sides of a box, clipped to an image of <<height, width>>, are at
\* least min_size
BothSidesAtLeast(box, size, min_size) ==
    /\ Clipped(box[3], size[2]) - Clipped(box[1], size[2]) >= min_size
    /\ Clipped(box[4], size[1]) - Clipped(box[2], size[1]) >= min_size

\* every row of the scene names a geometry and a species the object knows
Resolvable(path) ==
    \A k \in SceneRows(path) :
        /\ self.labels[k].id[1] \in DOMAIN self.geometries
        /\ self.labels[k].taxonID \in DOMAIN self.class2idx

\* what __getitem__ guarantees of a train scene once _load_boxes and
\* _load_target have returned: no two rows of the annotation table have
\* equal columns; there is one box and one label per row whose rsFile is the
\* scene's file, box i from the geometry keyed by row i's id and label i the
\* class index of row i's taxonID; and if the call returns, the boxes
\* returned are as many as the labels returned and as the rows whose clipped
\* box has both sides >= 1.
TrainBoxesAndLabels ==
    LET path == PathAt(self, ret.args.index)
        n == Cardinality(SceneRows(path))
        row(i) == self.labels[SceneRow(path, i)]
        box(i) == PixelBox(OpenRaster(disk, self, path),
                           SubSeq(self.geometries[row(i).id[1]].ring, 1, 4))
    IN  /\ \A j, k \in 1..Len(self.labels) :
              j # k => Columns(self.labels[j]) # Columns(self.labels[k])
        /\ Len(ret.loaded.boxes.rows) = n
        /\ Len(ret.loaded.label.rows) = n
        /\ \A i \in 1..n :
              /\ ret.loaded.boxes.rows[i] = box(i)
              /\ ret.loaded.label.rows[i] = self.class2idx[row(i).taxonID]
        /\ ret.err = "none" =>
              /\ Len(ret.built.boxes.rows) = Len(ret.built.label.rows)
              /\ Len(ret.built.boxes.rows) =
                     Cardinality({i \in 1..n : BothSidesAtLeast(box(i), image_size, 1)})

TrainBoxesAndLabelsWhenLoaded ==
    Accessed /\ self.split = "train" /\ ret.loaded # None => TrainBoxesAndLabels

\* C6: for the train split and every scene, boxes and labels are built from
\* the same rows of the joined, de-duplicated table in the same order (one
\* box and one label per row of the scene before filtering), and the boxes
\* returned are as many as the labels returned and as the rows whose clipped
\* box has both sides of at least 1 pixel.
C6_TrainBoxesAndLabels ==
    /\ Accessed /\ self.split = "train"
    /\ ret.args.index < Len(self.images) /\ ret.args.index >= -Len(self.images)
    /\ Resolvable(PathAt(self, ret.args.index))
    => /\ ret.loaded # None
       /\ TrainBoxesAndLabels
       /\ ret.err = "none"

\* two rows of the scene, one box kept and one dropped
TrainBoxesAndLabelsWitness ==
    /\ Accessed /\ self.split = "train" /\ ret.err = "none"
    /\ Len(ret.loaded.boxes.rows) = 2
    /\ Len(ret.built.boxes.rows) = 1
    /\ Len(ret.built.label.rows) = 1

\* nothing is annotated in the scene the last access asked for
NoGeometry ==
    /\ Accessed
    /\ ret.args.index < Len(self.images) /\ ret.args.index >= -Len(self.images)
    /\ \/ /\ self.split = "train"
          /\ SceneRows(PathAt(self, ret.args.index)) = {}
       \/ /\ self.split = "test" /\ self.task = "task2"
          /\ \A k \in DOMAIN self.geometries :
                self.geometries[k].plotID # PathAt(self, ret.args.index)

\* C7: a scene with no matching geometry is not an error: __getitem__
\* returns a sample whose boxes are empty and, for train, whose label is
\* empty.
C7_EmptySceneReturns ==
    NoGeometry =>
        /\ ret.err = "none"
        /\ ret.built.boxes.rows = <<>>
        /\ self.split = "train" => ret.built.label.rows = <<>>

\* C9: __getitem__ and __len__, returning or raising, leave the object (scene
\* list, geometries, annotation table) and the disk as they are; __len__
\* returns the number of RGB files of the object's directory; an access to
\* the index just accessed gives the same result.
C9_IndexReadOnly ==
    [][ret'.op \in {"getitem", "len"} =>
          /\ self' = self
          /\ disk' = disk
          /\ ret'.op = "len" => ret'.value = Len(disk[SceneDir(self)].RGB)
          /\ ret.op = "getitem" /\ ret'.op = "getitem" /\ ret'.args = ret.args =>
                ret' = ret]_vars

\* a length query answered on an object whose table has fewer rows than
\* its directory has scenes
C9_Witness ==
    /\ ret.op = "len" /\ self # None
    /\ self.split = "train"
    /\ ret.value = 2
    /\ Len(self.labels) < 2

(***************************************************************************)
(* Properties of _filter_boxes (SpecFB).                                   *)
(***************************************************************************)
Filtered == fb.stage \in {"once", "twice"} /\ fb.out.err = "none"

\* the input positions whose clipped box has both sides >= min_size
Survivors ==
    {i \in 1..Len(fb.boxes.rows) :
        BothSidesAtLeast(fb.boxes.rows[i], fb.image_size, fb.min_size)}

ClippedBox(box, size) ==
    <<Clipped(box[1], size[2]), Clipped(box[2], size[1]),
      Clipped(box[3], size[2]), Clipped(box[4], size[1])>>

\* C3: _filter_boxes keeps exactly the boxes whose clipped width and height
\* are both at least min_size, in their original order, each clipped to the
\* image, and returns the labels found at the positions of the kept boxes
\* (None when no labels were given).
C3_FilterKeepsExactly ==
    Filtered =>
        /\ Len(fb.out.boxes.rows) = Cardinality(Survivors)
        /\ \E pos \in [1..Len(fb.out.boxes.rows) -> Survivors] :
              /\ \A j, k \in DOMAIN pos : j < k => pos[j] < pos[k]
              /\ \A k \in DOMAIN pos :
                    /\ fb.out.boxes.rows[k] =
                           ClippedBox(fb.boxes.rows[pos[k]], fb.image_size)
                    /\ fb.labels # None =>
                           fb.out.labels.rows[k] = fb.labels.rows[pos[k]]
        /\ fb.labels # None => Len(fb.out.labels.rows) = Len(fb.out.boxes.rows)
        /\ fb.labels = None => fb.out.labels = None

\* two labelled boxes of which only the second survives, with its label
C3_Witness ==
    /\ Filtered
    /\ fb.labels # None
    /\ Len(fb.boxes.rows) = 2
    /\ Survivors = {2}
    /\ fb.out.labels.rows = <<101>>

\* C4: _filter_boxes applied to its own result, with the same image size
\* and min_size, returns that result.
C4_FilterIdempotent ==
    fb.stage = "twice" =>
        /\ fb.again.err = "none"
        /\ fb.again.boxes = fb.out.boxes
        /\ fb.again.labels = fb.out.labels

\* a second pass over a result that is neither empty nor the input
C4_Witness ==
    /\ fb.stage = "twice"
    /\ fb.out.boxes.rows # <<>>
    /\ fb.out.boxes.rows # fb.boxes.rows
    /\ Len(fb.out.boxes.rows) < Len(fb.boxes.rows)

\* C5 as stated: every coordinate returned is in [0, W) along x and in
\* [0, H) along y.
C5_ClippedExclusive ==
    Filtered =>
        \A k \in 1..Len(fb.out.boxes.rows) :
            /\ 0 <= fb.out.boxes.rows[k][1] /\ fb.out.boxes.rows[k][1] < fb.image_size[2]
            /\ 0 <= fb.out.boxes.rows[k][3] /\ fb.out.boxes.rows[k][3] < fb.image_size[2]
            /\ 0 <= fb.out.boxes.rows[k][2] /\ fb.out.boxes.rows[k][2] < fb.image_size[1]
            /\ 0 <= fb.out.boxes.rows[k][4] /\ fb.out.boxes.rows[k][4] < fb.image_size[1]

\* C5 amended: every coordinate returned is in [0, W] along x and in [0, H]
\* along y, the image extent included.
C5_ClippedInclusive ==
    Filtered =>
        \A k \in 1..Len(fb.out.boxes.rows) :
            /\ 0 <= fb.out.boxes.rows[k][1] /\ fb.out.boxes.rows[k][1] <= fb.image_size[2]
            /\ 0 <= fb.out.boxes.rows[k][3] /\ fb.out.boxes.rows[k][3] <= fb.image_size[2]
            /\ 0 <= fb.out.boxes.rows[k][2] /\ fb.out.boxes.rows[k][2] <= fb.image_size[1]
            /\ 0 <= fb.out.boxes.rows[k][4] /\ fb.out.boxes.rows[k][4] <= fb.image_size[1]

\* a box reaching beyond the image on both axes comes back ending on the
\* image extent
C5_Witness ==
    /\ Filtered
    /\ fb.boxes.rows # <<>>
    /\ fb.boxes.rows[1][3] > fb.image_size[2]
    /\ fb.boxes.rows[1][4] > fb.image_size[1]
    /\ fb.out.boxes.rows # <<>>
    /\ fb.out.boxes.rows[1][3] = fb.image_size[2]
    /\ fb.out.boxes.rows[1][4] = fb.image_size[1]

(***************************************************************************)
(* Properties of the geometry index.                                       *)
(***************************************************************************)
\* the .shp files the object's geometries were read from
ShapeFiles == disk[SceneDir(self)].ITC

\* <<file, position>> of every feature of those files
FeaturePlaces ==
    UNION {{<<f, k>> : k \in 1..Len(ShapeFiles[f])} : f \in 1..Len(ShapeFiles)}

\* p is read before q: an earlier file, or earlier in the same file
ReadBefore(p, q) == p[1] < q[1] \/ (p[1] = q[1] /\ p[2] < q[2])

FeatureAtPlace(p) == ShapeFiles[p[1]][p[2]]

\* C11: for test/task2 every feature read has its own key, the keys being
\* 0..n-1 in read order across all files, so the mapping has as many entries
\* as there are features even when declared ids repeat; for train the keys
\* are the declared ids, one entry per distinct id, holding the feature read
\* last with that id.
C11_GeometryKeys ==
    self # None /\ (self.split = "train" \/ self.task = "task2") =>
        IF self.split = "train"
        THEN /\ DOMAIN self.geometries = {FeatureAtPlace(p).id : p \in FeaturePlaces}
             /\ \A p \in FeaturePlaces :
                   (\A q \in FeaturePlaces :
                       ReadBefore(p, q) => FeatureAtPlace(q).id # FeatureAtPlace(p).id)
                   => self.geometries[FeatureAtPlace(p).id] = FeatureAtPlace(p)
        ELSE /\ DOMAIN self.geometries = 0..(Cardinality(FeaturePlaces) - 1)
             /\ \A p \in FeaturePlaces :
                   self.geometries[Cardinality({q \in FeaturePlaces : ReadBefore(q, p)})]
                       = FeatureAtPlace(p)

\* a train object built from two files that both declare id 11: one entry,
\* holding the feature of the second file
C11_Witness ==
    /\ self # None /\ self.split = "train"
    /\ FeaturePlaces = {<<1, 1>>, <<2, 1>>}
    /\ FeatureAtPlace(<<1, 1>>).id = FeatureAtPlace(<<2, 1>>).id
    /\ FeatureAtPlace(<<1, 1>>) # FeatureAtPlace(<<2, 1>>)
    /\ DOMAIN self.geometries = {11}
    /\ self.geometries[11] = FeatureAtPlace(<<2, 1>>)

====
